---- MODULE Spec2Model ----
(***************************************************************************)
(* Model of the mail store and session of src/main.py (class EmailApp and  *)
(* the module-level SQLite schema).  Text is modelled as a sequence of     *)
(* one-character strings, so that strip(), lower() and the substring test  *)
(* `in` are computed as Python computes them.                              *)
(***************************************************************************)
EXTENDS Integers, Sequences, FiniteSets, TLC

VARIABLES
    users,         \* table users: username -> password
    emails,        \* table emails: the rows, in rowid order
    seq,           \* sqlite_sequence.seq of table emails (AUTOINCREMENT)
    clock,         \* how often datetime.now() was read
    current_user,  \* EmailApp.current_user
    notice,        \* the messagebox the last handler showed, "" when none
    grab,          \* which window holds the Tk grab
    mailbox_open,  \* whether the Mailbox window exists
    cards,         \* per tab of the Mailbox window: the email ids of its cards
    search_var,    \* per tab: search_var
    sort_var,      \* per tab: sort_var
    analytics,     \* the Analytics window: the day it was opened on and its
                   \* date_counts; <<>> while there is no such window
    history        \* history variable: for every id a row was ever stored
                   \* under, the sender and the recipient of that row (the
                   \* table itself forgets a deleted row)

vars == <<users, emails, seq, clock, current_user, notice, grab,
          mailbox_open, cards, search_var, sort_var, analytics, history>>

store == <<users, emails, seq>>

window == <<mailbox_open, cards, search_var, sort_var, analytics>>

-----------------------------------------------------------------------------
(* Bounds of the model *)

\* the number of rows ever inserted into emails
MaxId == 2

\* the instants of the model's clock in one calendar day
InstantsPerDay == 2

\* the last calendar day the model's clock reaches
LastDay == 31

-----------------------------------------------------------------------------
(* Text *)

Empty == <<>>

\* Python's None (current_user before login, a message without attachment)
None == <<"None">>

Whitespace == {" ", "\t", "\n"}

\* The characters of the model's texts in code point order
CodePoints ==
    <<"\t", "\n", " ", "!", ",", "=",
      "A", "B", "C", "D", "E", "F", "G", "H", "I", "J", "K", "L", "M",
      "N", "O", "P", "Q", "R", "S", "T", "U", "V", "W", "X", "Y", "Z",
      "a", "b", "c", "d", "e", "f", "g", "h", "i", "j", "k", "l", "m",
      "n", "o", "p", "q", "r", "s", "t", "u", "v", "w", "x", "y", "z">>

Upper == 7..32

OrdTable ==
    [ch \in {CodePoints[i] : i \in 1..Len(CodePoints)} |->
        CHOOSE i \in 1..Len(CodePoints) : CodePoints[i] = ch]

Ord(ch) == OrdTable[ch]

\* str.lower() on one character
LowerChar(ch) == IF Ord(ch) \in Upper THEN CodePoints[Ord(ch) + 26] ELSE ch

\* str.lower()
Lower(s) == [i \in 1..Len(s) |-> LowerChar(s[i])]

RECURSIVE LStrip(_)
LStrip(s) ==
    IF s # <<>> /\ Head(s) \in Whitespace THEN LStrip(Tail(s)) ELSE s

RECURSIVE RStrip(_)
RStrip(s) ==
    IF s # <<>> /\ s[Len(s)] \in Whitespace
    THEN RStrip(SubSeq(s, 1, Len(s) - 1))
    ELSE s

\* str.strip()
Strip(s) == RStrip(LStrip(s))

\* Python's `needle in hay` on str
Contains(needle, hay) ==
    \E i \in 0..(Len(hay) - Len(needle)) :
        SubSeq(hay, i + 1, i + Len(needle)) = needle

\* Python's s < t on str
RECURSIVE StrLess(_, _)
StrLess(s, t) ==
    IF t = <<>> THEN FALSE
    ELSE IF s = <<>> THEN TRUE
    ELSE IF Head(s) = Head(t) THEN StrLess(Tail(s), Tail(t))
    ELSE Ord(Head(s)) < Ord(Head(t))

-----------------------------------------------------------------------------
(* Spam detection *)

spam_keywords ==
    { <<"l","o","t","t","e","r","y">>,
      <<"w","i","n"," ","m","o","n","e","y">>,
      <<"p","r","i","z","e">>,
      <<"f","r","e","e"," ","o","f","f","e","r">>,
      <<"u","r","g","e","n","t">>,
      <<"c","a","s","h">>,
      <<"c","r","e","d","i","t">>,
      <<"l","o","a","n">>,
      <<"c","o","n","g","r","a","t","u","l","a","t","i","o","n","s">>,
      <<"c","l","a","i","m"," ","n","o","w">>,
      <<"c","l","i","c","k"," ","h","e","r","e">> }
\* the keywords looked for in the text as typed, not lower-cased
detect_spam_as_typed(subject, body) ==
    LET text == subject \o <<" ">> \o body
    IN  \E w \in spam_keywords : Contains(w, text)

detect_spam(subject, body) ==
    LET text == Lower(subject \o <<" ">> \o body)
    IN  \E w \in spam_keywords : Contains(w, text)

-----------------------------------------------------------------------------
(* Inputs: what the user types or picks *)

\* Register: the username and password typed
RegisterInputs ==
    { <<Empty, <<"p">>>>, <<<<"a">>, Empty>>, <<<<"a">>, <<"p">>>>,
      <<<<"a">>, <<"q">>>>, <<<<"B">>, <<"p">>>> }

\* Login: the username and password typed
LoginInputs ==
    { Empty, <<"a">>, <<"B">>, <<"b">> } \X { Empty, <<"p">>, <<"q">> }

Attachment == <<"Q", "Q", "=", "=">>

\* Compose: the contents of To, Subject and Message, and the file attached
ComposeInputs ==
    { << <<" ">>,           <<"H", "i", " ">>,      <<"o", "k">>, None >>,
      << <<"a">>,           Empty,                  <<"o", "k">>, None >>,
      << <<"a">>,           <<"H", "i", " ">>,      <<" ">>,      Attachment >>,
      << <<"b">>,           <<"H", "i", " ">>,      <<"o", "k">>, None >>,
      << <<" ", "B", " ">>, <<"H", "i", " ">>,      <<"o", "k">>, Attachment >>,
      << <<"a">>,           <<"L", "O", "A", "N">>, <<"o", "k">>, None >> }

SearchInputs == { Empty, <<"h">> }

SortInputs == { "Subject", "Sender/Recipient", "Date" }

Tabs == { "Inbox", "Sent", "Spam" }

-----------------------------------------------------------------------------
(* SQL on the two tables *)

Max(a, b) == IF a >= b THEN a ELSE b

Ids(E) == { E[i].id : i \in DOMAIN E }

MaxRowid(E) == IF E = <<>> THEN 0 ELSE E[Len(E)].id

\* INTEGER PRIMARY KEY without AUTOINCREMENT: one more than the largest rowid
\* in the table, so the id of a deleted last row is handed out again
NextIdMaxRowid(E, s) == MaxRowid(E) + 1

\* INTEGER PRIMARY KEY AUTOINCREMENT: one more than the largest rowid the
\* table ever held, which sqlite_sequence remembers
NextId(E, s) == Max(s, MaxRowid(E)) + 1

\* a recipient check that passes whoever is named
UserExistsAlways(username) == TRUE

\* SELECT * FROM users WHERE username=?
UserExists(username) == username \in DOMAIN users

\* SELECT * FROM users WHERE username=? COLLATE NOCASE AND password=?
CredentialsMatchNoCase(username, password) ==
    \E u \in DOMAIN users : Lower(u) = Lower(username) /\ users[u] = password

\* SELECT * FROM users WHERE username=? AND password=?
CredentialsMatch(username, password) ==
    username \in DOMAIN users /\ users[username] = password

\* a users table without its PRIMARY KEY: no insert raises IntegrityError
IntegrityErrorNever(username) == FALSE

\* the PRIMARY KEY of users: inserting a username the table holds raises
\* sqlite3.IntegrityError
IntegrityError(username) == username \in DOMAIN users

\* INSERT INTO users VALUES (?, ?)
InsertUser(username, password) ==
    [u \in DOMAIN users \cup {username} |->
        IF u = username THEN password ELSE users[u]]

\* UPDATE emails SET is_spam = (id=?)
UpdateSpamOnly(E, email_id) ==
    [i \in DOMAIN E |->
        [E[i] EXCEPT !.is_spam = IF E[i].id = email_id THEN 1 ELSE 0]]

\* UPDATE emails SET is_spam = 1 - is_spam WHERE id=?
ToggleSpam(E, email_id) ==
    [i \in DOMAIN E |->
        IF E[i].id = email_id THEN [E[i] EXCEPT !.is_spam = 1 - @] ELSE E[i]]

\* UPDATE emails SET is_spam=1 WHERE id=?
UpdateSpam(E, email_id) ==
    [i \in DOMAIN E |->
        IF E[i].id = email_id THEN [E[i] EXCEPT !.is_spam = 1] ELSE E[i]]
\* DELETE FROM emails WHERE id=? AND is_spam=0
DeleteRowNotSpam(E, email_id) ==
    SelectSeq(E, LAMBDA r : r.id # email_id \/ r.is_spam = 1)
\* DELETE FROM emails WHERE id>=?
DeleteRowsFrom(E, email_id) == SelectSeq(E, LAMBDA r : r.id < email_id)

\* DELETE FROM emails WHERE id=?
DeleteRow(E, email_id) == SelectSeq(E, LAMBDA r : r.id # email_id)

-----------------------------------------------------------------------------
(* The Mailbox window: setup_mail_tab(tab, inbox, spam) and its refresh() *)

\* the flags open_mailbox_tabs passes to setup_mail_tab
TabInbox(tab) == tab \in {"Inbox", "Spam"}

TabSpam(tab) == tab = "Spam"

\* the inbox query with the spam rows left out
QueryInboxWithoutSpam(inbox, spam, user) ==
    IF spam
    THEN SelectSeq(emails, LAMBDA r : r.recipient = user /\ r.is_spam = 1)
    ELSE IF inbox
         THEN SelectSeq(emails, LAMBDA r : r.recipient = user /\ r.is_spam = 0)
         ELSE SelectSeq(emails, LAMBDA r : r.sender = user)

\* the SELECT refresh() runs, chosen by the flags inbox and spam
Query(inbox, spam, user) ==
    IF spam
    THEN SelectSeq(emails, LAMBDA r : r.recipient = user /\ r.is_spam = 1)
    ELSE IF inbox
         THEN SelectSeq(emails, LAMBDA r : r.recipient = user)
         ELSE SelectSeq(emails, LAMBDA r : r.sender = user)

\* column 1 of the selected row: the sender in Inbox and Spam, the recipient
\* in Sent
Person(inbox, spam, r) == IF spam \/ inbox THEN r.sender ELSE r.recipient

\* the search filter of refresh()
Filter(inbox, spam, rows, search) ==
    LET kw == Lower(search)
    IN  IF kw = Empty THEN rows
        ELSE SelectSeq(rows, LAMBDA r :
                 \/ Contains(kw, Lower(Person(inbox, spam, r)))
                 \/ Contains(kw, Lower(r.subject))
                 \/ Contains(kw, Lower(r.body)))

\* whether list.sort puts a strictly before b under the chosen sort
Before(inbox, spam, sort, a, b) ==
    IF sort = "Subject"
    THEN StrLess(Lower(a.subject), Lower(b.subject))
    ELSE IF sort = "Sender/Recipient"
         THEN StrLess(Lower(Person(inbox, spam, a)), Lower(Person(inbox, spam, b)))
         ELSE a.timestamp > b.timestamp

\* where a stable sort puts row r in the sorted rows s
RECURSIVE InsertPos(_, _, _, _, _, _)
\* where a sort that is not stable puts row r: before the rows with its key
RECURSIVE InsertPosBeforeEqual(_, _, _, _, _, _)
InsertPosBeforeEqual(inbox, spam, sort, s, r, i) ==
    IF i > Len(s) \/ ~Before(inbox, spam, sort, s[i], r) THEN i
    ELSE InsertPosBeforeEqual(inbox, spam, sort, s, r, i + 1)

InsertPos(inbox, spam, sort, s, r, i) ==
    IF i > Len(s) \/ Before(inbox, spam, sort, r, s[i]) THEN i
    ELSE InsertPos(inbox, spam, sort, s, r, i + 1)

\* list.sort(key=...) and list.sort(key=..., reverse=True): stable
RECURSIVE Sort(_, _, _, _)
Sort(inbox, spam, sort, rows) ==
    IF rows = <<>> THEN <<>>
    ELSE LET n == Len(rows)
             s == Sort(inbox, spam, sort, SubSeq(rows, 1, n - 1))
             i == InsertPos(inbox, spam, sort, s, rows[n], 1)
         IN  SubSeq(s, 1, i - 1) \o <<rows[n]>> \o SubSeq(s, i, Len(s))

\* the rows refresh() shows, in order
Shown(tab, user, search, sort) ==
    Sort(TabInbox(tab), TabSpam(tab), sort,
         Filter(TabInbox(tab), TabSpam(tab),
                Query(TabInbox(tab), TabSpam(tab), user), search))

\* refresh(): one card per shown row, holding the row's id
refresh(tab, user, search, sort) ==
    LET rows == Shown(tab, user, search, sort)
    IN  [i \in 1..Len(rows) |-> rows[i].id]

\* card_frame.destroy()
DestroyCard(tab, email_id) ==
    [cards EXCEPT ![tab] = SelectSeq(@, LAMBDA c : c # email_id)]

HasCard(tab, email_id) == \E i \in DOMAIN cards[tab] : cards[tab][i] = email_id

NoCards == [t \in Tabs |-> <<>>]

DefaultSearch == [t \in Tabs |-> Empty]

DefaultSort == [t \in Tabs |-> "Subject"]

NoAnalytics == <<>>
\* a clear_screen() that leaves the Toplevel windows alone
WindowsKept == UNCHANGED <<mailbox_open, cards, search_var, sort_var, analytics>>

\* clear_screen(): every child of the root window is destroyed, the Mailbox
\* and the Analytics window among them
WindowsDestroyed ==
    /\ mailbox_open' = FALSE
    /\ cards' = NoCards
    /\ search_var' = DefaultSearch
    /\ sort_var' = DefaultSort
    /\ analytics' = NoAnalytics

\* the main window takes input: no window holds the grab
MainActive == grab = "none"

\* the Mailbox window takes input
MailboxActive == mailbox_open /\ grab \in {"none", "mailbox"}

-----------------------------------------------------------------------------
(* The messageboxes *)

ErrorNotices ==
    { "Username and password required", "User already exists!",
      "Invalid credentials", "All fields are required!",
      "Recipient not found!" }

-----------------------------------------------------------------------------
(* The state after EmailApp.__init__ on a new database file *)

Init ==
    /\ users = [u \in {} |-> Empty]
    /\ emails = <<>>
    /\ seq = 0
    /\ clock = 0
    /\ current_user = None
    /\ notice = ""
    /\ grab = "none"
    /\ mailbox_open = FALSE
    /\ cards = NoCards
    /\ search_var = DefaultSearch
    /\ sort_var = DefaultSort
    /\ analytics = NoAnalytics
    /\ history = <<>>

-----------------------------------------------------------------------------
(* Login screen *)

\* Register, Submit
handle_reg(username, password) ==
    /\ current_user = None
    /\ MainActive
    /\ IF username = Empty \/ password = Empty
       THEN /\ notice' = "Username and password required"
            /\ UNCHANGED users
       ELSE IF IntegrityError(username)
            THEN /\ notice' = "User already exists!"
                 /\ UNCHANGED users
            ELSE /\ users' = InsertUser(username, password)
                 /\ notice' = "Registration successful!"
    /\ UNCHANGED <<emails, seq, clock, current_user, grab, window, history>>

\* Login, Submit
handle_login(username, password) ==
    /\ current_user = None
    /\ MainActive
    /\ IF CredentialsMatch(username, password)
       THEN /\ current_user' = username
            /\ notice' = "Welcome"
            /\ WindowsDestroyed
       ELSE /\ notice' = "Invalid credentials"
            /\ UNCHANGED <<current_user, window>>
    /\ UNCHANGED <<store, clock, grab, history>>

\* Logout
logout ==
    /\ current_user # None
    /\ MainActive
    /\ current_user' = None
    /\ WindowsDestroyed
    /\ notice' = ""
    /\ UNCHANGED <<store, clock, grab, history>>

-----------------------------------------------------------------------------
(* Compose *)

\* a Compose button that is also on the login screen
send_email_logged_out ==
    /\ MainActive \/ (MailboxActive /\ cards["Inbox"] # <<>>)
    /\ grab' = "compose"
    /\ notice' = ""
    /\ UNCHANGED <<store, clock, current_user, window, history>>

\* Compose in the sidebar, or Reply on a card of the Inbox tab: the Compose
\* window opens and takes the grab
send_email ==
    /\ current_user # None
    /\ MainActive \/ (MailboxActive /\ cards["Inbox"] # <<>>)
    /\ grab' = "compose"
    /\ notice' = ""
    /\ UNCHANGED <<store, clock, current_user, window, history>>

\* Cancel: popup.destroy releases the grab
cancel_send ==
    /\ grab = "compose"
    /\ grab' = "none"
    /\ notice' = ""
    /\ UNCHANGED <<store, clock, current_user, window, history>>

\* datetime.now(): each reading is later than the one before
now == clock + 1
\* Send, with the row inserted without is_spam: the column's default 0 is
\* stored, whatever detect_spam says
handle_send_default_flag(to, sub, msg, attachment) ==
    LET recipient == Strip(to)
        subject == Strip(sub)
        body == Strip(msg \o <<"\n">>)
        timestamp == now
        is_spam == 0
        id == NextId(emails, seq)
    IN  /\ grab = "compose"
        /\ IF recipient = Empty \/ subject = Empty \/ body = Empty
           THEN /\ notice' = "All fields are required!"
                /\ UNCHANGED <<emails, seq, clock, grab, history>>
           ELSE IF ~UserExists(recipient)
                THEN /\ notice' = "Recipient not found!"
                     /\ UNCHANGED <<emails, seq, clock, grab, history>>
                ELSE /\ id <= MaxId
                     /\ clock' = timestamp
                     /\ emails' = Append(emails,
                            [id |-> id, recipient |-> recipient,
                             sender |-> current_user, subject |-> subject,
                             body |-> body, attachment |-> attachment,
                             timestamp |-> timestamp, is_spam |-> is_spam])
                     /\ seq' = Max(seq, id)
                     /\ history' = (id :> <<current_user, recipient>>) @@ history
                     /\ notice' = IF is_spam = 1
                                  THEN "This email was flagged as spam and delivered to Spam folder."
                                  ELSE "Email sent successfully!"
                     /\ grab' = "none"
        /\ UNCHANGED <<users, current_user, window>>

\* Send; to, sub and msg are the contents of the three widgets
handle_send(to, sub, msg, attachment) ==
    LET recipient == Strip(to)
        subject == Strip(sub)
        body == Strip(msg \o <<"\n">>)
        timestamp == now
        is_spam == IF detect_spam(subject, body) THEN 1 ELSE 0
        id == NextId(emails, seq)
    IN  /\ grab = "compose"
        /\ IF recipient = Empty \/ subject = Empty \/ body = Empty
           THEN /\ notice' = "All fields are required!"
                /\ UNCHANGED <<emails, seq, clock, grab, history>>
           ELSE IF ~UserExists(recipient)
                THEN /\ notice' = "Recipient not found!"
                     /\ UNCHANGED <<emails, seq, clock, grab, history>>
                ELSE /\ id <= MaxId
                     /\ clock' = timestamp
                     /\ emails' = Append(emails,
                            [id |-> id, recipient |-> recipient,
                             sender |-> current_user, subject |-> subject,
                             body |-> body, attachment |-> attachment,
                             timestamp |-> timestamp, is_spam |-> is_spam])
                     /\ seq' = Max(seq, id)
                     /\ history' = (id :> <<current_user, recipient>>) @@ history
                     /\ notice' = IF is_spam = 1
                                  THEN "This email was flagged as spam and delivered to Spam folder."
                                  ELSE "Email sent successfully!"
                     /\ grab' = "none"
        /\ UNCHANGED <<users, current_user, window>>

-----------------------------------------------------------------------------
(* Mailbox *)

\* Mailbox in the sidebar: the window opens, takes the grab, and each of its
\* three tabs is set up and refreshed
open_mailbox_tabs ==
    /\ current_user # None
    /\ MainActive
    /\ ~mailbox_open
    /\ mailbox_open' = TRUE
    /\ grab' = "mailbox"
    /\ search_var' = DefaultSearch
    /\ sort_var' = DefaultSort
    /\ cards' = [t \in Tabs |-> refresh(t, current_user, Empty, "Subject")]
    /\ notice' = ""
    /\ UNCHANGED <<store, clock, current_user, analytics, history>>

\* the window manager closes the Mailbox window
close_mailbox ==
    /\ MailboxActive
    /\ WindowsDestroyed
    /\ grab' = "none"
    /\ notice' = ""
    /\ UNCHANGED <<store, clock, current_user, history>>

\* the trace on search_var: typing in the Search entry of a tab
search_trace(tab, kw) ==
    /\ MailboxActive
    /\ search_var' = [search_var EXCEPT ![tab] = kw]
    /\ cards' = [cards EXCEPT ![tab] = refresh(tab, current_user, kw, sort_var[tab])]
    /\ notice' = ""
    /\ UNCHANGED <<store, clock, current_user, grab, mailbox_open, sort_var,
                   analytics, history>>

\* the trace on sort_var: picking an entry of the Sort by box of a tab
sort_trace(tab, sort) ==
    /\ MailboxActive
    /\ sort_var' = [sort_var EXCEPT ![tab] = sort]
    /\ cards' = [cards EXCEPT ![tab] = refresh(tab, current_user, search_var[tab], sort)]
    /\ notice' = ""
    /\ UNCHANGED <<store, clock, current_user, grab, mailbox_open, search_var,
                   analytics, history>>

\* Mark Spam on a card; only the cards of the Inbox tab have the button
mark_as_spam(tab, email_id) ==
    /\ MailboxActive
    /\ TabInbox(tab) /\ ~TabSpam(tab)
    /\ HasCard(tab, email_id)
    /\ emails' = UpdateSpam(emails, email_id)
    /\ cards' = DestroyCard(tab, email_id)
    /\ notice' = "Email moved to Spam folder"
    /\ UNCHANGED <<users, seq, clock, current_user, grab,
                   mailbox_open, search_var, sort_var, analytics, history>>

\* Delete on a card of any tab; yes is the answer to askyesno
delete_email(tab, email_id, yes) ==
    /\ MailboxActive
    /\ HasCard(tab, email_id)
    /\ notice' = "Are you sure you want to delete this email?"
    /\ IF yes
       THEN /\ emails' = DeleteRow(emails, email_id)
            /\ cards' = DestroyCard(tab, email_id)
       ELSE UNCHANGED <<emails, cards>>
    /\ UNCHANGED <<users, seq, clock, current_user, grab,
                   mailbox_open, search_var, sort_var, analytics, history>>

-----------------------------------------------------------------------------
(* Analytics *)

\* SUBSTR(timestamp,1,10) and datetime.date(): the calendar day of an
\* instant, days counted from the day of instant 0
DayOf(timestamp) == timestamp \div InstantsPerDay

\* today - timedelta(days=29)
start_date(today) == today - 29

\* the two counts SELECT COUNT(*) ... WHERE sender=? and ... WHERE recipient=?
\* added up per day
DailyRowsSentPlusReceived(user, start) ==
    LET since == { i \in DOMAIN emails : DayOf(emails[i].timestamp) >= start }
        dts == { DayOf(emails[i].timestamp) :
                     i \in { k \in since : emails[k].sender = user
                                             \/ emails[k].recipient = user } }
    IN  [dt \in dts |->
            Cardinality({ i \in since : /\ emails[i].sender = user
                                        /\ DayOf(emails[i].timestamp) = dt })
          + Cardinality({ i \in since : /\ emails[i].recipient = user
                                        /\ DayOf(emails[i].timestamp) = dt })]

\* SELECT SUBSTR(timestamp,1,10) as dt, COUNT(*) FROM emails WHERE (sender=?
\* OR recipient=?) AND timestamp >= ? GROUP BY dt: the days with a row of the
\* user, each with the number of those rows; a timestamp is at least the
\* date text start exactly when its day is start or later
DailyRows(user, start) ==
    LET matching == { i \in DOMAIN emails :
                          /\ emails[i].sender = user \/ emails[i].recipient = user
                          /\ DayOf(emails[i].timestamp) >= start }
    IN  [dt \in { DayOf(emails[i].timestamp) : i \in matching } |->
            Cardinality({ i \in matching : DayOf(emails[i].timestamp) = dt })]

\* the dict date_counts in the order of its keys: the days start_date + i for
\* i in range(30) with 0, then the count of every fetched day that is a key
date_counts(user, today) ==
    LET start == start_date(today)
        rows == DailyRows(user, start)
    IN  [i \in 1..30 |->
            LET dt == start + (i - 1)
            IN  [date |-> dt,
                 count |-> IF dt \in DOMAIN rows THEN rows[dt] ELSE 0]]

\* Analytics in the sidebar: the window opens, takes the grab and computes
\* the emails per day of the last 30 days
open_analytics ==
    LET today == DayOf(now)
    IN  /\ current_user # None
        /\ MainActive
        /\ today <= LastDay
        /\ clock' = now
        /\ grab' = "analytics"
        /\ analytics' = [today |-> today,
                         date_counts |-> date_counts(current_user, today)]
        /\ notice' = ""
        /\ UNCHANGED <<store, current_user, mailbox_open, cards, search_var,
                       sort_var, history>>

\* Close, or the window manager closes the Analytics window
close_analytics ==
    /\ grab = "analytics"
    /\ grab' = "none"
    /\ analytics' = NoAnalytics
    /\ notice' = ""
    /\ UNCHANGED <<store, clock, current_user, mailbox_open, cards, search_var,
                   sort_var, history>>

-----------------------------------------------------------------------------

\* Every handler that reads or writes the two tables or the session; the
\* traces on search_var and sort_var only rebuild the cards of one tab
Next ==
    \/ \E in \in RegisterInputs : handle_reg(in[1], in[2])
    \/ \E in \in LoginInputs : handle_login(in[1], in[2])
    \/ logout
    \/ send_email
    \/ cancel_send
    \/ \E in \in ComposeInputs : handle_send(in[1], in[2], in[3], in[4])
    \/ open_mailbox_tabs
    \/ close_mailbox
    \/ \E tab \in Tabs, email_id \in 1..MaxId : mark_as_spam(tab, email_id)
    \/ \E tab \in Tabs, email_id \in 1..MaxId, yes \in BOOLEAN :
           delete_email(tab, email_id, yes)

Spec == Init /\ [][Next]_vars

-----------------------------------------------------------------------------
(* What the claims speak of, stated apart from the handlers *)

Range(f) == { f[i] : i \in DOMAIN f }

Rows == Range(emails)

RowsAfter == Range(emails')

\* text with nothing but whitespace in it
Blank(s) == \A i \in DOMAIN s : s[i] \in Whitespace

\* text without the whitespace around it
Trimmed(s) ==
    LET inked == { i \in DOMAIN s : s[i] \notin Whitespace }
    IN  IF inked = {} THEN <<>>
        ELSE SubSeq(s, CHOOSE i \in inked : \A j \in inked : i <= j,
                       CHOOSE i \in inked : \A j \in inked : i >= j)

Registered == DOMAIN users

StoreUnchanged == UNCHANGED <<users, emails, seq>>

\* the rows as they are once the row of email_id, if any, carries the flag
Flagged(email_id) ==
    [i \in DOMAIN emails |->
        IF emails[i].id = email_id
        THEN [emails[i] EXCEPT !.is_spam = 1]
        ELSE emails[i]]

-----------------------------------------------------------------------------
(* C1 *)

\* C1: once a stored message's is_spam is true it is true in every later
\* state in which the message still exists: no step of register, login,
\* logout, compose, mark-spam or delete sets it back to false.
C1_SpamStaysSet ==
    [][\A r \in Rows : \A t \in RowsAfter :
          (r.is_spam = 1 /\ t.id = r.id) => t.is_spam = 1]_vars

\* a message the classifier passed was marked by hand and, after a later
\* compose, still carries the flag
C1_Witness ==
    /\ \E r \in Rows : r.is_spam = 1 /\ ~detect_spam(r.subject, r.body) /\ r.id = 1
    /\ seq = 2
    /\ notice = "Email sent successfully!"

-----------------------------------------------------------------------------
(* C2 *)

\* C2: in every reachable state the sender and the recipient of every stored
\* message are registered accounts, the sender is never None, and no step
\* removes an account.
C2_PartiesRegistered ==
    /\ [](\A r \in Rows :
             /\ r.sender # None
             /\ r.sender \in Registered
             /\ r.recipient \in Registered)
    /\ [][Registered \subseteq DOMAIN users']_vars

\* a message from one account to another is stored
C2_Witness ==
    \E r \in Rows : r.sender # r.recipient /\ Cardinality(Registered) = 2

-----------------------------------------------------------------------------
(* C3 *)

\* C3: a compose whose recipient, subject or body is empty after trimming
\* fails with "All fields are required!" (InvalidInput); otherwise one whose
\* trimmed recipient is no registered account fails with "Recipient not
\* found!" (UnknownRecipient); either way no row is added and the accounts
\* and messages are as before.
C3_ComposeRejected ==
    [][\A in \in ComposeInputs :
          handle_send(in[1], in[2], in[3], in[4]) =>
              LET blank == Blank(in[1]) \/ Blank(in[2]) \/ Blank(in[3])
                  unknown == Trimmed(in[1]) \notin Registered
              IN  /\ blank =>
                        notice' = "All fields are required!" /\ StoreUnchanged
                  /\ (~blank /\ unknown) =>
                        notice' = "Recipient not found!" /\ StoreUnchanged]_vars

\* a compose to an unknown recipient was rejected while messages are stored
C3_Witness == notice = "Recipient not found!" /\ emails # <<>>

-----------------------------------------------------------------------------
(* C4 *)

\* C4: the ids of the stored messages are unique and increase in creation
\* order, and a newly inserted message gets an id greater than every id
\* assigned before (seq, the largest of them), so that no id of a deleted
\* message is used again.
C4_IdsNeverReused ==
    /\ [](/\ \A i, j \in DOMAIN emails : i < j => emails[i].id < emails[j].id
          /\ \A r \in Rows : r.id <= seq)
    /\ [][/\ seq' >= seq
          /\ \A t \in RowsAfter : t.id \notin Ids(emails) => t.id > seq]_vars

\* message 1 was deleted before message 2 was composed
C4_Witness ==
    /\ Ids(emails) = {2}
    /\ notice \in { "Email sent successfully!",
                    "This email was flagged as spam and delivered to Spam folder." }

-----------------------------------------------------------------------------
(* C5 *)

\* C5: Mark Spam on a stored message sets its is_spam and changes nothing
\* else; applied to a message whose is_spam is set already it leaves the
\* store as it is, and reports success again.
C5_MarkIdempotent ==
    [][\A tab \in Tabs, email_id \in 1..MaxId :
          (mark_as_spam(tab, email_id) /\ email_id \in Ids(emails)) =>
              /\ emails' = Flagged(email_id)
              /\ (\E r \in Rows : r.id = email_id /\ r.is_spam = 1)
                     => emails' = emails
              /\ UNCHANGED <<users, seq>>
              /\ notice' = "Email moved to Spam folder"]_vars

\* message 1 was marked by hand, the Mailbox window was opened again (its
\* Spam tab has the card), and the message was marked a second time
C5_Witness ==
    /\ seq = 1
    /\ \E r \in Rows : r.id = 1 /\ r.is_spam = 1 /\ ~detect_spam(r.subject, r.body)
    /\ HasCard("Spam", 1)
    /\ ~HasCard("Inbox", 1)
    /\ notice = "Email moved to Spam folder"

-----------------------------------------------------------------------------
(* C6 *)

\* C6: Mark Spam with an id no stored message has reports an error, not
\* success, and leaves the store unchanged.
C6_MarkMissingFails ==
    [][\A tab \in Tabs, email_id \in 1..MaxId :
          (mark_as_spam(tab, email_id) /\ email_id \notin Ids(emails)) =>
              notice' \in ErrorNotices /\ StoreUnchanged]_vars

-----------------------------------------------------------------------------
(* C7 *)

\* C7: Delete, confirmed, with an id no stored message has reports an
\* error, not success, and leaves the store unchanged.
C7_DeleteMissingFails ==
    [][\A tab \in Tabs, email_id \in 1..MaxId :
          (delete_email(tab, email_id, TRUE) /\ email_id \notin Ids(emails)) =>
              notice' \in ErrorNotices /\ StoreUnchanged]_vars

-----------------------------------------------------------------------------
(* C8 *)

\* the accounts once username is registered with password
WithAccount(username, password) ==
    [u \in Registered \cup {username} |->
        IF u = username THEN password ELSE users[u]]

\* C8 as claimed: Register succeeds whenever the username is non-empty and
\* not registered, whatever the password; with a registered username it fails
\* with "User already exists!" and leaves every account as it is.
C8_RegisterAsClaimed ==
    [][\A in \in RegisterInputs :
          handle_reg(in[1], in[2]) =>
              /\ (in[1] # Empty /\ in[1] \notin Registered) =>
                     /\ users' = WithAccount(in[1], in[2])
                     /\ notice' = "Registration successful!"
              /\ in[1] \in Registered =>
                     /\ users' = users
                     /\ notice' = "User already exists!"]_vars

\* C8 amended: Register succeeds whenever username and password are both
\* non-empty and the username is not registered; with an empty username or
\* an empty password it fails with "Username and password required"; with
\* both non-empty and the username registered it fails with "User already
\* exists!"; a failed Register leaves every account as it is.
C8_RegisterAmended ==
    [][\A in \in RegisterInputs :
          handle_reg(in[1], in[2]) =>
              LET empty == in[1] = Empty \/ in[2] = Empty
              IN  /\ (~empty /\ in[1] \notin Registered) =>
                         /\ users' = WithAccount(in[1], in[2])
                         /\ notice' = "Registration successful!"
                  /\ empty =>
                         /\ users' = users
                         /\ notice' = "Username and password required"
                  /\ (~empty /\ in[1] \in Registered) =>
                         /\ users' = users
                         /\ notice' = "User already exists!"]_vars

\* a Register with a registered username was refused
C8_Witness ==
    /\ notice = "User already exists!"
    /\ Cardinality(Registered) = 2

-----------------------------------------------------------------------------
(* C9 *)

\* C9: Login makes username the current user if and only if an account with
\* exactly that username and exactly that password is stored; a failed Login
\* reports "Invalid credentials" and leaves no user logged in; and in every
\* reachable state the current user is None or a registered account.
C9_LoginExact ==
    /\ [](current_user = None \/ current_user \in Registered)
    /\ [][\A in \in LoginInputs :
             handle_login(in[1], in[2]) =>
                 LET stored == in[1] \in Registered /\ users[in[1]] = in[2]
                 IN  /\ current_user' = in[1] <=> stored
                     /\ ~stored => /\ current_user' = None
                                   /\ notice' = "Invalid credentials"]_vars

\* B logged in while a is registered too
C9_Witness ==
    /\ current_user = <<"B">>
    /\ notice = "Welcome"
    /\ <<"a">> \in Registered

-----------------------------------------------------------------------------
(* C10 *)

\* the rows the tab's query returns for user
Folder(tab, user) == Range(Query(TabInbox(tab), TabSpam(tab), user))

\* C10: in every reachable state and for every user u, the Inbox query
\* returns exactly the stored messages with recipient u whatever their
\* is_spam, the Spam query exactly those of them with is_spam set (a subset
\* of the Inbox), and the Sent query exactly the stored messages with sender
\* u; no query returns a row twice.
C10_Folders ==
    \A u \in Registered \cup {None} :
        /\ Folder("Inbox", u) = { r \in Rows : r.recipient = u }
        /\ Folder("Spam", u) = { r \in Rows : r.recipient = u /\ r.is_spam = 1 }
        /\ Folder("Sent", u) = { r \in Rows : r.sender = u }
        /\ Folder("Spam", u) \subseteq Folder("Inbox", u)
        /\ \A tab \in Tabs :
               Len(Query(TabInbox(tab), TabSpam(tab), u)) = Cardinality(Folder(tab, u))

\* the Mailbox window was just opened by a user who received a spam message
\* and another one, and sent one of the two: the Inbox tab shows both, the
\* Spam tab one
C10_Witness ==
    /\ mailbox_open
    /\ notice = ""
    /\ Len(cards["Inbox"]) = 2
    /\ Len(cards["Spam"]) = 1
    /\ Len(cards["Sent"]) = 1

-----------------------------------------------------------------------------
(* C11 *)

\* the ids of the messages that some folder query of some user returns
Listed ==
    { r.id : r \in UNION { Folder(tab, user) :
                             tab \in Tabs, user \in Registered \cup {None} } }

\* C11: a message that Delete, answered Yes, removes is returned by no folder
\* query of any user afterwards, whether its sender (Sent tab) or its
\* recipient (Inbox or Spam tab) deleted it; a spam message is in its
\* recipient's Inbox and Spam queries before the step and in neither after
\* it; and an id that was given out and is returned by no query is returned
\* by none in the next state either, so in no later state (the queries read
\* the two tables and nothing else, so that this can only fail in a step
\* that changes a table).
C11_HardDelete ==
    [][ /\ \A tab \in Tabs : \A r \in Rows :
              delete_email(tab, r.id, TRUE) =>
                  /\ r.id \in Listed
                  /\ r.id \notin Listed'
                  /\ r.is_spam = 1 =>
                         /\ r \in Folder("Inbox", r.recipient)
                         /\ r \in Folder("Spam", r.recipient)
                         /\ r \notin Folder("Inbox", r.recipient)'
                         /\ r \notin Folder("Spam", r.recipient)'
        /\ (users' # users \/ emails' # emails) =>
              LET before == Listed
                  after == Listed'
              IN  \A email_id \in 1..seq :
                      email_id \notin before => email_id \notin after ]_vars

\* B sent a the only message, a spam message; a opened the Mailbox window,
\* which showed it in the Inbox and in the Spam tab, and deleted it on the
\* card of the Spam tab
C11_Witness ==
    /\ current_user = <<"a">>
    /\ notice = "Are you sure you want to delete this email?"
    /\ emails = <<>>
    /\ seq = 1
    /\ history[1] = << <<"B">>, <<"a">> >>
    /\ cards = [t \in Tabs |-> IF t = "Inbox" THEN <<1>> ELSE <<>>]

-----------------------------------------------------------------------------
(* C12 *)

\* the subjects and messages typed into the Compose window
ClassifierInputs ==
    { << <<"H","i">>,                     <<"o","k">> >>,
      << <<"H","i">>,                     <<"L","O","A","N">> >>,
      << <<"C","a","s","h">>,             <<"o","k">> >>,
      << <<"H","i">>,                     <<"W","i","n"," ","M","o","n","e","y">> >>,
      << <<"U","r","g","e","n","t","!">>, <<"o","k">> >>,
      << <<"H","i">>,                     <<"p","r","i"," ","z","e">> >>,
      << <<"w","i","n">>,                 <<"m","o","n","e","y">> >>,
      << <<"F","r","e","e">>,             <<"o","f","f","e","r">> >>,
      << <<"c","l","i","c","k">>,         <<"h","e","r","e">> >>,
      << <<"l","o">>,                     <<"a","n">> >>,
      << <<"c","r","e">>,                 <<"d","i","t">> >>,
      << <<"H","i">>,                     <<"c","a","s","h",","," ","o","k">> >> }

\* user a is registered and logged in, and no message is stored
InitClassifier ==
    /\ users = (<<"a">> :> <<"p">>)
    /\ emails = <<>>
    /\ seq = 0
    /\ clock = 0
    /\ current_user = <<"a">>
    /\ notice = "Welcome"
    /\ grab = "none"
    /\ mailbox_open = FALSE
    /\ cards = NoCards
    /\ search_var = DefaultSearch
    /\ sort_var = DefaultSort
    /\ analytics = NoAnalytics
    /\ history = <<>>

\* a composes messages to itself
NextClassifier ==
    \/ send_email
    \/ cancel_send
    \/ \E in \in ClassifierInputs : handle_send(<<"a">>, in[1], in[2], None)

SpecClassifier == InitClassifier /\ [][NextClassifier]_vars

\* w is text[i+1 .. i+Len(w)] for some i
Occurs(w, text) ==
    \E i \in 0..(Len(text) - Len(w)) : SubSeq(text, i + 1, i + Len(w)) = w

\* C12 as claimed: a message is classified as spam if and only if one of the
\* eleven keywords occurs in the lower-cased subject followed directly by the
\* body, with nothing between the two.
C12_PlainConcatenation ==
    /\ Cardinality(spam_keywords) = 11
    /\ \A r \in Rows :
           r.is_spam = 1 <=>
               \E w \in spam_keywords : Occurs(w, Lower(r.subject \o r.body))

\* C12 amended: a message is classified as spam if and only if one of the
\* eleven keywords occurs in the lower-cased text made of the subject, one
\* space and the body.
C12_JoinedBySpace ==
    /\ Cardinality(spam_keywords) = 11
    /\ \A r \in Rows :
           r.is_spam = 1 <=>
               \E w \in spam_keywords :
                   Occurs(w, Lower(r.subject \o <<" ">> \o r.body))

\* a message with subject "win" and body "money" is stored as spam, and one
\* with subject "lo" and body "an" as not spam
C12_Witness ==
    /\ \E r \in Rows : /\ r.subject = <<"w","i","n">>
                       /\ r.body = <<"m","o","n","e","y">>
                       /\ r.is_spam = 1
    /\ \E r \in Rows : /\ r.subject = <<"l","o">>
                       /\ r.body = <<"a","n">>
                       /\ r.is_spam = 0

-----------------------------------------------------------------------------
(* C13 *)

\* C13: every Send that is not rejected appends exactly one row, under an id
\* no stored row has, whose sender is the current user, whose recipient is
\* the registered account typed, whose subject and body are the trimmed texts
\* typed and whose is_spam is the classifier's result on that stored subject
\* and body; and in whatever step a row first appears, it appears with that
\* is_spam value, so in no state is a new row stored with the flag still to
\* be computed.
C13_ComposeStoresClassified ==
    [][ /\ \A in \in ComposeInputs :
              (handle_send(in[1], in[2], in[3], in[4]) /\ notice' \notin ErrorNotices) =>
                  \E r \in RowsAfter :
                      /\ emails' = Append(emails, r)
                      /\ r.id \notin Ids(emails)
                      /\ r.sender = current_user
                      /\ r.sender # None
                      /\ r.recipient = Trimmed(in[1])
                      /\ r.recipient \in Registered
                      /\ r.subject = Trimmed(in[2])
                      /\ r.body = Trimmed(in[3])
                      /\ r.is_spam = IF detect_spam(r.subject, r.body) THEN 1 ELSE 0
        /\ \A r \in RowsAfter :
              r.id \notin Ids(emails) =>
                  r.is_spam = IF detect_spam(r.subject, r.body) THEN 1 ELSE 0 ]_vars

\* B has just sent a a message with subject "LOAN", the second message
\* stored: the row is there with is_spam = 1
C13_Witness ==
    /\ notice = "This email was flagged as spam and delivered to Spam folder."
    /\ current_user = <<"B">>
    /\ Len(emails) = 2
    /\ emails[2].sender = <<"B">>
    /\ emails[2].recipient = <<"a">>
    /\ emails[2].subject = <<"L", "O", "A", "N">>
    /\ emails[2].is_spam = 1

-----------------------------------------------------------------------------
(* C14 *)

\* C14: Mark Spam leaves the accounts and the number and order of the rows
\* as they are, sets is_spam of the row with the card's id and changes no
\* other field of it and nothing of any other row; Delete answered Yes leaves
\* the accounts as they are, removes the row with the card's id and keeps
\* every other row, unchanged and in order; Delete answered No changes
\* nothing stored.
C14_OnlyTheTarget ==
    [][ \A tab \in Tabs : \A email_id \in 1..seq :
          /\ mark_as_spam(tab, email_id) =>
                 /\ users' = users
                 /\ Len(emails') = Len(emails)
                 /\ \A i \in DOMAIN emails :
                        IF emails[i].id = email_id
                        THEN /\ emails'[i].is_spam = 1
                             /\ \A f \in DOMAIN emails[i] \ {"is_spam"} :
                                    emails'[i][f] = emails[i][f]
                             /\ DOMAIN emails'[i] = DOMAIN emails[i]
                        ELSE emails'[i] = emails[i]
          /\ delete_email(tab, email_id, TRUE) =>
                 /\ users' = users
                 /\ RowsAfter = { r \in Rows : r.id # email_id }
                 /\ Len(emails') = Cardinality(RowsAfter)
                 /\ \A i, j \in DOMAIN emails' :
                        i < j => emails'[i].id < emails'[j].id
          /\ delete_email(tab, email_id, FALSE) =>
                 /\ users' = users
                 /\ emails' = emails ]_vars

\* B received two messages with an attachment, marked the first as spam and
\* then deleted the second: the first is stored as it was sent but for
\* is_spam
C14_Witness ==
    /\ notice = "Are you sure you want to delete this email?"
    /\ current_user = <<"B">>
    /\ seq = 2
    /\ emails = << [id |-> 1, recipient |-> <<"B">>, sender |-> history[1][1],
                    subject |-> <<"H", "i">>, body |-> <<"o", "k">>,
                    attachment |-> Attachment, timestamp |-> 1,
                    is_spam |-> 1] >>
    /\ Cardinality(Registered) = 2

-----------------------------------------------------------------------------
(* C15 *)

\* rows of the table, but for the id: messages between a and B whose
\* subjects differ in case only or not at all, and whose timestamps are
\* equal or not
SortRows ==
    { [recipient |-> <<"a">>, sender |-> <<"B">>, subject |-> <<"h", "i">>,
       body |-> <<"o", "k">>, attachment |-> None, timestamp |-> 1, is_spam |-> 0],
      [recipient |-> <<"a">>, sender |-> <<"a">>, subject |-> <<"H", "i">>,
       body |-> <<"o", "k">>, attachment |-> None, timestamp |-> 1, is_spam |-> 1],
      [recipient |-> <<"a">>, sender |-> <<"B">>, subject |-> <<"a">>,
       body |-> <<"o", "k">>, attachment |-> None, timestamp |-> 2, is_spam |-> 1],
      [recipient |-> <<"B">>, sender |-> <<"a">>, subject |-> <<"H", "i">>,
       body |-> <<"o", "k">>, attachment |-> Attachment, timestamp |-> 2, is_spam |-> 0],
      [recipient |-> <<"a">>, sender |-> <<"a">>, subject |-> <<"B">>,
       body |-> <<"o", "k">>, attachment |-> None, timestamp |-> 2, is_spam |-> 0] }

\* the tables of up to MaxId such rows, with ids in rowid order
SortStores ==
    { [i \in DOMAIN f |->
          [id |-> i, recipient |-> f[i].recipient, sender |-> f[i].sender,
           subject |-> f[i].subject, body |-> f[i].body,
           attachment |-> f[i].attachment, timestamp |-> f[i].timestamp,
           is_spam |-> f[i].is_spam]] :
      f \in UNION { [1..n -> SortRows] : n \in 0..MaxId } }

\* a and B are registered, a is logged in and has just opened the Mailbox
\* window on one of the tables
InitSort ==
    /\ users = (<<"a">> :> <<"p">>) @@ (<<"B">> :> <<"p">>)
    /\ emails \in SortStores
    /\ seq = Len(emails)
    /\ clock = Len(emails)
    /\ current_user = <<"a">>
    /\ notice = ""
    /\ grab = "mailbox"
    /\ mailbox_open = TRUE
    /\ cards = [t \in Tabs |-> refresh(t, current_user, Empty, "Subject")]
    /\ search_var = DefaultSearch
    /\ sort_var = DefaultSort
    /\ analytics = NoAnalytics
    /\ history = [i \in DOMAIN emails |-> <<emails[i].sender, emails[i].recipient>>]

\* a types in the Search entries and picks in the Sort by boxes
NextSort ==
    \/ \E tab \in Tabs, kw \in SearchInputs : search_trace(tab, kw)
    \/ \E tab \in Tabs, sort \in SortInputs : sort_trace(tab, sort)

SpecSort == InitSort /\ [][NextSort]_vars

\* the place of the row with this id in the table
Place(email_id) == CHOOSE i \in DOMAIN emails : emails[i].id = email_id

\* whether the row passes the search filter of the tab
Passes(tab, r) ==
    LET kw == Lower(search_var[tab])
    IN  \/ kw = Empty
        \/ Occurs(kw, Lower(Person(TabInbox(tab), TabSpam(tab), r)))
        \/ Occurs(kw, Lower(r.subject))
        \/ Occurs(kw, Lower(r.body))

\* whether row a must come before row b under the sort of the tab, and
\* whether the two have the same key
Precedes(tab, a, b) ==
    IF sort_var[tab] = "Subject"
    THEN StrLess(Lower(a.subject), Lower(b.subject))
    ELSE IF sort_var[tab] = "Sender/Recipient"
         THEN StrLess(Lower(Person(TabInbox(tab), TabSpam(tab), a)),
                      Lower(Person(TabInbox(tab), TabSpam(tab), b)))
         ELSE a.timestamp > b.timestamp

SameKey(tab, a, b) == ~Precedes(tab, a, b) /\ ~Precedes(tab, b, a)

\* C15: in every tab the cards are, each once, the rows of the tab's folder
\* that pass the search filter; no card comes before another whose key
\* precedes its own (subject or contact in lower case ascending, timestamp
\* descending); and of two cards with the same key, Date included, the one
\* the store returned first comes first.
C15_StableSort ==
    \A tab \in Tabs :
        LET shown == cards[tab]
            passing == { r \in Folder(tab, current_user) : Passes(tab, r) }
        IN  /\ Range(shown) = { r.id : r \in passing }
            /\ Len(shown) = Cardinality(passing)
            /\ \A i, j \in DOMAIN shown :
                   i < j =>
                       LET a == emails[Place(shown[i])]
                           b == emails[Place(shown[j])]
                       IN  /\ ~Precedes(tab, b, a)
                           /\ SameKey(tab, a, b) => Place(a.id) < Place(b.id)

\* a's Inbox, sorted by Date, shows two messages of the same timestamp, "hi"
\* and "Hi", in the order of the table; the Sent tab, searched for "h", shows
\* the one of them that a sent
C15_Witness ==
    /\ Len(emails) = 2
    /\ emails[1].timestamp = emails[2].timestamp
    /\ emails[1].subject = <<"h", "i">>
    /\ emails[2].subject = <<"H", "i">>
    /\ sort_var["Inbox"] = "Date"
    /\ cards["Inbox"] = <<1, 2>>
    /\ sort_var["Spam"] = "Subject"
    /\ search_var["Sent"] = <<"h">>
    /\ cards["Sent"] = <<2>>

-----------------------------------------------------------------------------
(* C16 *)

\* the first or the last instant of a day
Instant(day, last) == day * InstantsPerDay + IF last THEN InstantsPerDay - 1 ELSE 0

\* sender, recipient and timestamp of stored messages: on the day before the
\* 30 days that end on LastDay - 1, on the first and the last of those days,
\* and on the day after
AnalyticsCases ==
    { << <<"B">>, <<"a">>, Instant(LastDay - 31, TRUE) >>,
      << <<"a">>, <<"a">>, Instant(LastDay - 30, TRUE) >>,
      << <<"a">>, <<"B">>, Instant(LastDay - 30, FALSE) >>,
      << <<"a">>, <<"a">>, Instant(LastDay - 1, FALSE) >>,
      << <<"B">>, <<"a">>, Instant(LastDay - 1, FALSE) >>,
      << <<"a">>, <<"B">>, Instant(LastDay - 1, TRUE) >>,
      << <<"B">>, <<"B">>, Instant(LastDay - 1, FALSE) >>,
      << <<"B">>, <<"a">>, Instant(LastDay, FALSE) >> }

\* the tables of up to MaxId such messages, with ids in rowid order
AnalyticsStores ==
    { [i \in DOMAIN f |->
          [id |-> i, recipient |-> f[i][2], sender |-> f[i][1],
           subject |-> <<"H", "i">>, body |-> <<"o", "k">>,
           attachment |-> None, timestamp |-> f[i][3], is_spam |-> 0]] :
      f \in UNION { [1..n -> AnalyticsCases] : n \in 0..MaxId } }

\* a and B are registered, a is logged in on one of the tables, and the
\* next reading of the clock is the first instant of day LastDay - 1
InitAnalytics ==
    /\ users = (<<"a">> :> <<"p">>) @@ (<<"B">> :> <<"p">>)
    /\ emails \in AnalyticsStores
    /\ seq = Len(emails)
    /\ clock = Instant(LastDay - 1, FALSE) - 1
    /\ current_user = <<"a">>
    /\ notice = "Welcome"
    /\ grab = "none"
    /\ mailbox_open = FALSE
    /\ cards = NoCards
    /\ search_var = DefaultSearch
    /\ sort_var = DefaultSort
    /\ analytics = NoAnalytics
    /\ history = [i \in DOMAIN emails |-> <<emails[i].sender, emails[i].recipient>>]

\* a opens and closes the Analytics window
NextAnalytics ==
    \/ open_analytics
    \/ close_analytics

SpecAnalytics == InitAnalytics /\ [][NextAnalytics]_vars

\* the sum of the counts of the entries from the i-th on
RECURSIVE SumFrom(_, _)
SumFrom(dc, i) == IF i > Len(dc) THEN 0 ELSE dc[i].count + SumFrom(dc, i + 1)

\* C16: the emails per day the Analytics window holds are 30 entries for 30
\* consecutive days in ascending order, the last one the day the window was
\* opened on; each entry is the number of stored messages of that day with
\* the user as sender or as recipient, a message to oneself counted once, 0
\* for a day without such a message; and the entries add up to the number of
\* such messages dated within those 30 days.
C16_DailyCounts ==
    analytics # NoAnalytics =>
        LET dc == analytics.date_counts
            today == analytics.today
            mine == { i \in DOMAIN emails : \/ emails[i].sender = current_user
                                            \/ emails[i].recipient = current_user }
        IN  /\ today = DayOf(clock)
            /\ Len(dc) = 30
            /\ dc[30].date = today
            /\ \A i \in 1..29 : dc[i + 1].date = dc[i].date + 1
            /\ \A i \in 1..30 :
                   dc[i].count =
                       Cardinality({ k \in mine :
                                       DayOf(emails[k].timestamp) = dc[i].date })
            /\ SumFrom(dc, 1) =
                   Cardinality({ k \in mine :
                                   /\ DayOf(emails[k].timestamp) > today - 30
                                   /\ DayOf(emails[k].timestamp) <= today })

\* the Analytics window is open on a table with a message to a from the day
\* before the 30 days and a message of a to itself from today: the first and
\* the last entry are 0 and 1
C16_Witness ==
    /\ analytics # NoAnalytics
    /\ Len(emails) = 2
    /\ emails[1].recipient = <<"a">>
    /\ DayOf(emails[1].timestamp) = analytics.today - 30
    /\ emails[2].sender = <<"a">> /\ emails[2].recipient = <<"a">>
    /\ DayOf(emails[2].timestamp) = analytics.today
    /\ analytics.date_counts[1].count = 0
    /\ analytics.date_counts[30].count = 1

-----------------------------------------------------------------------------
(* C17 *)

\* C17: after every Mark Spam and every Delete answered Yes on a card of one
\* tab of the Mailbox window, the cards of each of the three tabs are the
\* messages that the tab's folder query returns for the current user on the
\* store as it then is.
C17_TabsShowFolders ==
    [][ \A tab \in Tabs : \A email_id \in 1..seq :
          (mark_as_spam(tab, email_id) \/ delete_email(tab, email_id, TRUE)) =>
              \A t \in Tabs :
                  Range(cards'[t]) = { r.id : r \in Folder(t, current_user)' } ]_vars

-----------------------------------------------------------------------------
(* C18 *)

\* C18: Mark Spam is only ever run, by a logged-in user, on an id under which
\* a message to that user was stored, the message that is stored under it
\* now if there is one; Delete is only ever run, by a logged-in user, on an
\* id under which a message from or to that user was stored, the message
\* that is stored under it now if there is one.
C18_OwnMailOnly ==
    [][ \A tab \in Tabs : \A email_id \in 1..MaxId :
          /\ mark_as_spam(tab, email_id) =>
                 /\ current_user # None
                 /\ current_user \in Registered
                 /\ email_id \in DOMAIN history
                 /\ history[email_id][2] = current_user
                 /\ \A r \in Rows : r.id = email_id => r.recipient = current_user
          /\ \A yes \in BOOLEAN :
                 delete_email(tab, email_id, yes) =>
                     /\ current_user # None
                     /\ current_user \in Registered
                     /\ email_id \in DOMAIN history
                     /\ current_user \in { history[email_id][1], history[email_id][2] }
                     /\ \A r \in Rows :
                            r.id = email_id =>
                                current_user \in { r.sender, r.recipient } ]_vars

\* a has marked as spam, on the card the Inbox tab still showed, the message
\* it had sent to itself and then deleted on the card of the Sent tab
C18_Witness ==
    /\ notice = "Email moved to Spam folder"
    /\ current_user = <<"a">>
    /\ emails = <<>>
    /\ seq = 1
    /\ history[1] = << <<"a">>, <<"a">> >>
    /\ cards = NoCards

====
